---------------------------- MODULE Spec2Model ----------------------------
(***************************************************************************)
(* Model of the chunking / dispatch / merge pipeline of                    *)
(* video-to-pdf-transcript:                                                *)
(*   utils/videoChunker.ts      shouldChunkVideo, splitVideoIntoChunks     *)
(*   utils/transcriptMerger.ts  mergeTranscripts, removeBoundaryDuplicates *)
(*   services (part_000)        processVideoWithGemini                     *)
(*   services (part_001)        processVideoWithChunking                   *)
(*                                                                         *)
(* JavaScript strings are sequences of one-character strings, so that      *)
(* split, trim, toLowerCase, substring, padStart and join are computed     *)
(* character by character as the code computes them.  Times are whole      *)
(* seconds.                                                                *)
(***************************************************************************)
EXTENDS Integers, Sequences, FiniteSets, TLC

VARIABLES
    pc,             \* position of the operation being executed
    input,          \* arguments of the exported function under application
    output,         \* its return value, or the error it threw
    apiKey,         \* whether process.env holds a usable API key
    chunks,         \* processVideoWithChunking: the planned chunks
    i,              \* processVideoWithChunking: the dispatch loop's index
    chunkResults,   \* processVideoWithChunking: results pushed so far
    chunkDurations, \* processVideoWithChunking: durations pushed so far
    inFlight,       \* chunk indexes whose generateContent call is pending
    events          \* history: callbacks invoked, calls made, errors caught

run == <<apiKey, chunks, i, chunkResults, chunkDurations, inFlight, events>>

vars == <<pc, input, output, run>>

\* no run of processVideoWithChunking under way
Idle ==
    /\ apiKey = TRUE
    /\ chunks = <<>>
    /\ i = 0
    /\ chunkResults = <<>>
    /\ chunkDurations = <<>>
    /\ inFlight = {}
    /\ events = <<>>

(***************************************************************************)
(* Strings                                                                 *)
(***************************************************************************)
Digits == <<"0", "1", "2", "3", "4", "5", "6", "7", "8", "9">>

UpperCase == <<"A", "B", "C", "D", "E", "F", "G", "H", "I", "J", "K", "L", "M",
               "N", "O", "P", "Q", "R", "S", "T", "U", "V", "W", "X", "Y", "Z">>

LowerCase == <<"a", "b", "c", "d", "e", "f", "g", "h", "i", "j", "k", "l", "m",
               "n", "o", "p", "q", "r", "s", "t", "u", "v", "w", "x", "y", "z">>

Range(s) == {s[k] : k \in 1..Len(s)}

IsDigit(c) == \E d \in 1..10 : Digits[d] = c

DigitValue(c) == (CHOOSE d \in 1..10 : Digits[d] = c) - 1

\* String.prototype.toLowerCase on one character
toLowerCaseChar(c) ==
    IF \E k \in 1..26 : UpperCase[k] = c
    THEN LowerCase[CHOOSE k \in 1..26 : UpperCase[k] = c]
    ELSE c

\* String.prototype.toLowerCase
toLowerCase(s) == [k \in 1..Len(s) |-> toLowerCaseChar(s[k])]

\* String.prototype.substring(0, n)
substring0(s, n) == SubSeq(s, 1, IF Len(s) < n THEN Len(s) ELSE n)

\* String(n) for a non-negative integer n
RECURSIVE NatToString(_)
NatToString(n) ==
    IF n < 10 THEN <<Digits[n + 1]>>
    ELSE NatToString(n \div 10) \o <<Digits[(n % 10) + 1]>>

\* Number(s) yields NaN for anything that is not a run of digits
NaN == -1

RECURSIVE DigitsToNat(_)
DigitsToNat(s) ==
    IF s = <<>> THEN 0
    ELSE 10 * DigitsToNat(SubSeq(s, 1, Len(s) - 1)) + DigitValue(s[Len(s)])

\* Number(s): the empty string is 0, a run of digits its value
Number(s) ==
    IF \A k \in 1..Len(s) : IsDigit(s[k]) THEN DigitsToNat(s) ELSE NaN

\* String(n): NaN prints as "NaN"
String(n) == IF n = NaN THEN <<"N", "a", "N">> ELSE NatToString(n)

\* String.prototype.padStart(2, '0')
padStart2(s) ==
    IF Len(s) >= 2 THEN s
    ELSE IF Len(s) = 1 THEN <<"0">> \o s
    ELSE <<"0", "0">>

\* String.prototype.split(sep) for a one-character separator
RECURSIVE split(_, _)
split(s, sep) ==
    IF \E k \in 1..Len(s) : s[k] = sep
    THEN LET k == CHOOSE j \in 1..Len(s) :
                      s[j] = sep /\ \A h \in 1..(j - 1) : s[h] # sep
         IN  <<SubSeq(s, 1, k - 1)>> \o split(SubSeq(s, k + 1, Len(s)), sep)
    ELSE <<s>>

\* String.prototype.trim
RECURSIVE trim(_)
trim(s) ==
    IF s # <<>> /\ s[1] = " " THEN trim(Tail(s))
    ELSE IF s # <<>> /\ s[Len(s)] = " " THEN trim(SubSeq(s, 1, Len(s) - 1))
    ELSE s

\* Array.prototype.join(sep)
RECURSIVE join(_, _)
join(parts, sep) ==
    IF parts = <<>> THEN <<>>
    ELSE IF Len(parts) = 1 THEN parts[1]
    ELSE parts[1] \o sep \o join(Tail(parts), sep)

\* Set.prototype.add on a Set kept in insertion order
SetAdd(set, x) == IF x \in Range(set) THEN set ELSE Append(set, x)

\* new Set(array): the array's values in first-insertion order
RECURSIVE SetFrom(_)
SetFrom(array) ==
    IF array = <<>> THEN <<>>
    ELSE SetAdd(SetFrom(SubSeq(array, 1, Len(array) - 1)), array[Len(array)])

\* arrays.flat(): the concatenation of a list of lists
RECURSIVE Flatten(_)
Flatten(arrays) ==
    IF arrays = <<>> THEN <<>> ELSE arrays[1] \o Flatten(Tail(arrays))

(***************************************************************************)
(* utils/transcriptMerger.ts                                               *)
(***************************************************************************)
\* adjustTimestamp with the carry dropped: seconds are added in place
adjustTimestamp_noCarry(timestamp, offsetSeconds) ==
    LET parts == split(timestamp, ":")
        minutes == Number(parts[1])
        seconds == IF Len(parts) >= 2 THEN Number(parts[2]) ELSE NaN
    IN  IF minutes = NaN \/ seconds = NaN
        THEN String(NaN) \o <<":">> \o String(NaN)
        ELSE padStart2(String(minutes)) \o <<":">>
                 \o padStart2(String(seconds + offsetSeconds))

\* adjustTimestamp with the minutes wrapped at 60 like a clock
adjustTimestamp_wrapHour(timestamp, offsetSeconds) ==
    LET parts == split(timestamp, ":")
        minutes == Number(parts[1])
        seconds == IF Len(parts) >= 2 THEN Number(parts[2]) ELSE NaN
        totalSeconds == minutes * 60 + seconds + offsetSeconds
    IN  IF minutes = NaN \/ seconds = NaN
        THEN String(NaN) \o <<":">> \o String(NaN)
        ELSE padStart2(String((totalSeconds \div 60) % 60)) \o <<":">>
                 \o padStart2(String(totalSeconds % 60))

\* adjustTimestamp without the zero padding
adjustTimestamp_noPad(timestamp, offsetSeconds) ==
    LET parts == split(timestamp, ":")
        minutes == Number(parts[1])
        seconds == IF Len(parts) >= 2 THEN Number(parts[2]) ELSE NaN
        totalSeconds == minutes * 60 + seconds + offsetSeconds
    IN  IF minutes = NaN \/ seconds = NaN
        THEN String(NaN) \o <<":">> \o String(NaN)
        ELSE String(totalSeconds \div 60) \o <<":">>
                 \o String(totalSeconds % 60)

\* adjustTimestamp(timestamp, offsetSeconds)
adjustTimestamp(timestamp, offsetSeconds) ==
    LET parts == split(timestamp, ":")
        minutes == Number(parts[1])
        seconds == IF Len(parts) >= 2 THEN Number(parts[2]) ELSE NaN
        totalSeconds == minutes * 60 + seconds + offsetSeconds
        newMinutes == totalSeconds \div 60
        newSeconds == totalSeconds % 60
    IN  IF minutes = NaN \/ seconds = NaN
        THEN String(NaN) \o <<":">> \o String(NaN)
        ELSE padStart2(String(newMinutes)) \o <<":">>
                 \o padStart2(String(newSeconds))

\* One result's mapping in mergeTranscripts' outer forEach: every segment of
\* the chunk with its timestamp adjusted by cumulativeTime
AdjustChunk(chunk, cumulativeTime) ==
    [j \in 1..Len(chunk.transcript) |->
        [chunk.transcript[j] EXCEPT
            !.timestamp = adjustTimestamp(@, cumulativeTime)]]

\* the same loop with the offset already advanced by the current chunk
RECURSIVE MergeLoop_offsetEarly(_, _, _, _, _)
MergeLoop_offsetEarly(results, durations, chunkIndex, cumulativeTime, merged) ==
    IF chunkIndex >= Len(results) THEN merged
    ELSE LET advanced == IF chunkIndex < Len(durations)
                         THEN cumulativeTime + durations[chunkIndex + 1]
                         ELSE cumulativeTime
         IN  MergeLoop_offsetEarly(results, durations, chunkIndex + 1,
                 advanced,
                 merged \o AdjustChunk(results[chunkIndex + 1], advanced))

\* mergeTranscripts' forEach over results from chunkIndex (0-based) on, with the
\* cumulativeTime and mergedTranscript accumulated so far
RECURSIVE MergeLoop(_, _, _, _, _)
MergeLoop(results, durations, chunkIndex, cumulativeTime, mergedTranscript) ==
    IF chunkIndex >= Len(results) THEN mergedTranscript
    ELSE MergeLoop(results, durations, chunkIndex + 1,
                   IF chunkIndex < Len(durations)
                   THEN cumulativeTime + durations[chunkIndex + 1]
                   ELSE cumulativeTime,
                   mergedTranscript
                       \o AdjustChunk(results[chunkIndex + 1], cumulativeTime))

MaxTags == 15

\* mergeTags that keeps the tags' case
mergeTags_keepCase(tagArrays) ==
    LET tagSet == SetFrom(Flatten(tagArrays))
    IN  SubSeq(tagSet, 1, IF Len(tagSet) < MaxTags THEN Len(tagSet) ELSE MaxTags)

\* mergeTags without the slice(0, 15)
mergeTags_noLimit(tagArrays) ==
    LET allTags == Flatten(tagArrays)
    IN  SetFrom([k \in 1..Len(allTags) |-> toLowerCase(allTags[k])])

\* mergeTags(tagArrays): every tag of every array, lower-cased, added to a Set;
\* the first 15 of the Set
mergeTags(tagArrays) ==
    LET allTags == Flatten(tagArrays)
        tagSet == SetFrom([k \in 1..Len(allTags) |-> toLowerCase(allTags[k])])
    IN  SubSeq(tagSet, 1, IF Len(tagSet) < MaxTags THEN Len(tagSet) ELSE MaxTags)

\* mergeSummaries that keeps repeated summaries
mergeSummaries_keepDuplicates(summaries) == join(summaries, <<" ">>)

\* mergeSummaries(summaries)
mergeSummaries(summaries) ==
    LET uniqueSummaries == SetFrom(summaries)
    IN  join(uniqueSummaries, <<" ">>)

\* the tokens of one language string: split(',') then trim
LanguageTokens(lang) ==
    LET parts == split(lang, ",")
    IN  [k \in 1..Len(parts) |-> trim(parts[k])]

\* mergeLanguages comparing the tokens case-insensitively
mergeLanguages_foldCase(languages) ==
    LET tokens == Flatten([k \in 1..Len(languages) |->
                              LanguageTokens(languages[k])])
        firsts == {p \in 1..Len(tokens) :
                      \A q \in 1..(p - 1) :
                          toLowerCase(tokens[q]) # toLowerCase(tokens[p])}
        kept == [k \in 1..Cardinality(firsts) |->
                    tokens[CHOOSE p \in firsts :
                               Cardinality({q \in firsts : q < p}) = k - 1]]
    IN  join(kept, <<",", " ">>)

\* mergeLanguages without the trim
mergeLanguages_noTrim(languages) ==
    LET languageSet == SetFrom(Flatten([k \in 1..Len(languages) |->
                                           split(languages[k], ",")]))
    IN  join(languageSet, <<",", " ">>)

\* mergeLanguages(languages)
mergeLanguages(languages) ==
    LET languageSet == SetFrom(Flatten([k \in 1..Len(languages) |->
                                           LanguageTokens(languages[k])]))
    IN  join(languageSet, <<",", " ">>)

\* what a call leaves its caller with
Return(value) == [kind |-> "return", value |-> value]
Throw(message) == [kind |-> "throw", error |-> message]

\* mergeTranscripts whose merged metadata is the first chunk's, untouched
mergeTranscripts_baseOnly(results, durations) ==
    IF Len(results) = 0 THEN Throw("No chunks to merge")
    ELSE Return([metadata |-> results[1].metadata,
                 transcript |-> MergeLoop(results, durations, 0, 0, <<>>)])

\* mergeTranscripts that returns an empty result for no results
mergeTranscripts_noThrow(results, durations) ==
    IF Len(results) = 0
    THEN Return([metadata |-> <<>>, transcript |-> <<>>])
    ELSE Return(
        [metadata |->
            [results[1].metadata EXCEPT
                !.tags = mergeTags([k \in 1..Len(results) |->
                                       results[k].metadata.tags]),
                !.summary = mergeSummaries([k \in 1..Len(results) |->
                                               results[k].metadata.summary]),
                !.language = mergeLanguages([k \in 1..Len(results) |->
                                                results[k].metadata.language])],
         transcript |-> MergeLoop(results, durations, 0, 0, <<>>)])

\* mergeTranscripts(chunks, chunkDurations)
mergeTranscripts(results, durations) ==
    IF Len(results) = 0 THEN Throw("No chunks to merge")
    ELSE LET baseMetadata == results[1].metadata
             mergedTranscript == MergeLoop(results, durations, 0, 0, <<>>)
             mergedMetadata ==
                 [baseMetadata EXCEPT
                     !.tags = mergeTags([k \in 1..Len(results) |->
                                            results[k].metadata.tags]),
                     !.summary = mergeSummaries([k \in 1..Len(results) |->
                                                    results[k].metadata.summary]),
                     !.language = mergeLanguages([k \in 1..Len(results) |->
                                                     results[k].metadata.language])]
         IN  Return([metadata |-> mergedMetadata,
                     transcript |-> mergedTranscript])

PrefixLength == 20

\* the key removeBoundaryDuplicates files a segment under
DedupKey(segment) ==
    segment.timestamp \o <<"-">>
        \o toLowerCase(substring0(segment.text, PrefixLength))

\* removeBoundaryDuplicates' forEach from index (0-based) on, with the cleaned
\* list and the seen Set built so far
RECURSIVE DedupLoop(_, _, _, _)
DedupLoop(transcript, index, cleaned, seen) ==
    IF index >= Len(transcript) THEN cleaned
    ELSE LET segment == transcript[index + 1]
             key == DedupKey(segment)
         IN  IF key \notin seen
             THEN DedupLoop(transcript, index + 1, Append(cleaned, segment),
                            seen \cup {key})
             ELSE IF index > 0
             THEN LET prevSegment == transcript[index]
                  IN  IF /\ prevSegment.timestamp = segment.timestamp
                         /\ toLowerCase(prevSegment.text)
                                = toLowerCase(segment.text)
                      THEN DedupLoop(transcript, index + 1, cleaned, seen)
                      ELSE DedupLoop(transcript, index + 1,
                                     Append(cleaned, segment), seen)
             ELSE DedupLoop(transcript, index + 1, cleaned, seen)

\* removeBoundaryDuplicates that drops every segment whose key was seen
RECURSIVE DedupLoopByKey(_, _, _, _)
DedupLoopByKey(transcript, index, cleaned, seen) ==
    IF index >= Len(transcript) THEN cleaned
    ELSE LET segment == transcript[index + 1]
             key == DedupKey(segment)
         IN  IF key \notin seen
             THEN DedupLoopByKey(transcript, index + 1,
                                 Append(cleaned, segment), seen \cup {key})
             ELSE DedupLoopByKey(transcript, index + 1, cleaned, seen)

removeBoundaryDuplicates_byKeyOnly(transcript) ==
    DedupLoopByKey(transcript, 0, <<>>, {})

\* removeBoundaryDuplicates comparing the texts of neighbours case-sensitively
RECURSIVE DedupLoopCaseSensitive(_, _, _, _)
DedupLoopCaseSensitive(transcript, index, cleaned, seen) ==
    IF index >= Len(transcript) THEN cleaned
    ELSE LET segment == transcript[index + 1]
             key == DedupKey(segment)
         IN  IF key \notin seen
             THEN DedupLoopCaseSensitive(transcript, index + 1,
                                         Append(cleaned, segment),
                                         seen \cup {key})
             ELSE IF index > 0
             THEN LET prevSegment == transcript[index]
                  IN  IF /\ prevSegment.timestamp = segment.timestamp
                         /\ prevSegment.text = segment.text
                      THEN DedupLoopCaseSensitive(transcript, index + 1,
                                                  cleaned, seen)
                      ELSE DedupLoopCaseSensitive(transcript, index + 1,
                                                  Append(cleaned, segment), seen)
             ELSE DedupLoopCaseSensitive(transcript, index + 1, cleaned, seen)

removeBoundaryDuplicates_caseSensitive(transcript) ==
    DedupLoopCaseSensitive(transcript, 0, <<>>, {})

\* removeBoundaryDuplicates(transcript)
removeBoundaryDuplicates(transcript) == DedupLoop(transcript, 0, <<>>, {})

(***************************************************************************)
(* mergeTranscripts applied to drawn arguments                             *)
(***************************************************************************)
MaxChunks == 3        \* results per call in the general family
MaxInMinutes == 6     \* minutes field of the drawn timestamps: 0..MaxInMinutes
MaxOffset == 70      \* drawn durations: 0..MaxOffset
MaxTagStart == 10     \* first letter of a drawn tag window
MaxTagLen == 8        \* tags per drawn tag window
MaxLangTokens == 2    \* language names per drawn language string

SeqsUpTo(S, n) == UNION {[1..k -> S] : k \in 0..n}

\* "MM:SS" (or "MMM:SS") written digit by digit
MkTimestamp(m, s) ==
    (IF m >= 100 THEN <<Digits[(m \div 100) + 1]>> ELSE <<>>)
        \o <<Digits[((m \div 10) % 10) + 1], Digits[(m % 10) + 1], ":",
             Digits[(s \div 10) + 1], Digits[(s % 10) + 1]>>

WellFormedTimestamps ==
    {MkTimestamp(m, s) : m \in (0..MaxInMinutes) \cup {59, 99, 100}, s \in 0..59}

\* not MM:SS: unpadded fields, a missing field, fields that are no numbers
MalformedTimestamps ==
    {<<"5", ":", "7">>, <<"5">>, <<"a", "b", ":", "c", "d">>,
     <<"0", "1", ":", "x">>}

Offsets == (0..MaxOffset) \cup {90, 300, 600, 6000}

Entry(timestamp, text) ==
    [timestamp |-> timestamp, speaker |-> "Speaker 1", text |-> text,
     tone |-> "calm", intent |-> "inform"]

Metadata(title, language, tags, summary) ==
    [title |-> title, speakerName |-> "Ada", category |-> "Lecture",
     language |-> language, tags |-> tags, summary |-> summary]

English == <<"E", "n", "g", "l", "i", "s", "h">>
Spanish == <<"S", "p", "a", "n", "i", "s", "h">>
spanish == <<"s", "p", "a", "n", "i", "s", "h">>
French == <<"F", "r", "e", "n", "c", "h">>
Unknown == <<"U", "n", "k", "n", "o", "w", "n">>
Talk == <<"T", "a", "l", "k">>
Intro == <<"I", "n", "t", "r", "o", ".">>
More == <<"M", "o", "r", "e", ".">>
Hello == <<"H", "e", "l", "l", "o">>
ChunkWord == <<"C", "h", "u", "n", "k", " ">>
ProcessingFailed ==
    <<" ", "p", "r", "o", "c", "e", "s", "s", "i", "n", "g", " ",
      "f", "a", "i", "l", "e", "d">>

ResultA ==
    [metadata |-> Metadata(Talk, English, <<<<"A">>, <<"b">>>>, Intro),
     transcript |-> <<Entry(MkTimestamp(0, 5), Hello)>>]

ResultB ==
    [metadata |-> Metadata(Talk \o <<"2">>, English \o <<",", " ">> \o Spanish,
                           <<<<"B">>, <<"c">>>>, More),
     transcript |-> <<Entry(MkTimestamp(5, 30), Hello),
                      Entry(MkTimestamp(0, 59), More)>>]

ResultC ==
    [metadata |-> Metadata(Talk \o <<"3">>, spanish \o <<",", " ">> \o French,
                           <<<<"b">>>>, Intro),
     transcript |-> <<Entry(MkTimestamp(59, 59), More)>>]

ResultFailed ==
    [metadata |-> Metadata(Talk, Unknown, <<>>,
                           ChunkWord \o <<"2">> \o ProcessingFailed),
     transcript |-> <<>>]

SampleResults == {ResultA, ResultB, ResultC, ResultFailed}

SampleDurations == {0, 300, 600}

TimedResult(timestamp) ==
    [metadata |-> Metadata(Talk, English, <<<<"a">>>>, Intro),
     transcript |-> <<Entry(timestamp, Hello)>>]

EmptyResult ==
    [metadata |-> Metadata(Talk, English, <<>>, Intro), transcript |-> <<>>]

\* len letters from the start-th on; "mixed" makes every other one a capital
TagWindow(start, len, case) ==
    [k \in 1..len |->
        LET letter == ((start + k - 2) % 26) + 1
        IN  IF case = "mixed" /\ (start + k) % 2 = 0
            THEN <<UpperCase[letter]>>
            ELSE <<LowerCase[letter]>>]

TagWindows ==
    {TagWindow(start, len, case) :
        start \in 1..MaxTagStart, len \in 0..MaxTagLen,
        case \in {"lower", "mixed"}}

TaggedResult(tags) ==
    [metadata |-> Metadata(Talk, English, tags, Intro), transcript |-> <<>>]

LanguageNames == {English, Spanish, spanish, French, <<>>}

\* language names joined by ", " or " ,"
LanguageStrings ==
    { join(names, sep) :
        names \in UNION {[1..n -> LanguageNames] : n \in 1..MaxLangTokens},
        sep \in {<<",", " ">>, <<" ", ",">>} }

SpokenResult(language) ==
    [metadata |-> Metadata(Talk, language, <<>>, Intro), transcript |-> <<>>]

Call(results, durations) ==
    [chunks |-> results, chunkDurations |-> durations]

\* any results, with a duration for each or the last one's missing
GeneralInput ==
    \E n \in 0..MaxChunks :
        \E results \in [1..n -> SampleResults] :
            \E m \in {k \in {n - 1, n} : k >= 0} :
                \E durations \in [1..m -> SampleDurations] :
                    input = Call(results, durations)

\* one entry at any timestamp, behind any cumulative offset or alone
TimestampInput ==
    \E t \in WellFormedTimestamps \cup MalformedTimestamps :
        \/ \E d \in Offsets :
               input = Call(<<EmptyResult, TimedResult(t)>>, <<d, 0>>)
        \/ \E d \in SampleDurations :
               input = Call(<<TimedResult(t)>>, <<d>>)

\* one or two results with any tag windows
TagInput ==
    \E t1 \in TagWindows :
        \/ \E t2 \in TagWindows :
               input = Call(<<TaggedResult(t1), TaggedResult(t2)>>, <<0, 0>>)
        \/ input = Call(<<TaggedResult(t1)>>, <<0>>)

\* one or two results with any language strings
LanguageInput ==
    \E l1 \in LanguageStrings :
        \/ \E l2 \in LanguageStrings :
               input = Call(<<SpokenResult(l1), SpokenResult(l2)>>, <<0, 0>>)
        \/ input = Call(<<SpokenResult(l1)>>, <<0>>)

\* no results, with any durations
EmptyInput ==
    \E durations \in SeqsUpTo(SampleDurations, MaxChunks) :
        input = Call(<<>>, durations)

InitMerge ==
    /\ pc = "call"
    /\ output = <<>>
    /\ Idle
    /\ \/ GeneralInput
       \/ TimestampInput
       \/ TagInput
       \/ LanguageInput
       \/ EmptyInput

CallMergeTranscripts ==
    /\ pc = "call"
    /\ output' = mergeTranscripts(input.chunks, input.chunkDurations)
    /\ pc' = "returned"
    /\ UNCHANGED <<input, run>>

SpecMerge == InitMerge /\ [][CallMergeTranscripts]_vars

(***************************************************************************)
(* Properties of mergeTranscripts                                          *)
(***************************************************************************)
RECURSIVE Pow10(_)
Pow10(n) == IF n = 0 THEN 1 ELSE 10 * Pow10(n - 1)

RECURSIVE SumTo(_, _)
SumTo(f, n) == IF n = 0 THEN 0 ELSE f[n] + SumTo(f, n - 1)

\* the number a run of digits writes, digit by position
DecimalValue(s) ==
    SumTo([k \in 1..Len(s) |-> DigitValue(s[k]) * Pow10(Len(s) - k)], Len(s))

\* exactly one colon, digits around it
Parsable(t) ==
    /\ Cardinality({k \in 1..Len(t) : t[k] = ":"}) = 1
    /\ \A k \in 1..Len(t) : t[k] = ":" \/ IsDigit(t[k])

\* minutes * 60 + seconds of a parsable timestamp
ParsedSeconds(t) ==
    LET c == CHOOSE k \in 1..Len(t) : t[k] = ":"
    IN  DecimalValue(SubSeq(t, 1, c - 1)) * 60
            + DecimalValue(SubSeq(t, c + 1, Len(t)))

\* the decimal digits of n, at least two of them
AtLeastTwoDigits(n) ==
    LET width == IF n < 100 THEN 2 ELSE CHOOSE w \in 3..9 :
                                            Pow10(w - 1) <= n /\ n < Pow10(w)
    IN  [k \in 1..width |-> Digits[((n \div Pow10(width - k)) % 10) + 1]]

\* the MM:SS rendering of a number of seconds: minutes are not wrapped at 60
MMSS(total) ==
    AtLeastTwoDigits(total \div 60) \o <<":">> \o AtLeastTwoDigits(total % 60)

\* the form MM:SS: two or more minute digits, padded only up to two, a colon,
\* two second digits in 00..59
IsMMSS(t) ==
    LET n == Len(t)
    IN  /\ n >= 5
        /\ t[n - 2] = ":"
        /\ \A k \in (1..(n - 3)) \cup {n - 1, n} : IsDigit(t[k])
        /\ DigitValue(t[n - 1]) <= 5
        /\ n > 5 => t[1] # "0"

\* the values of seq at their first appearance, in order
FirstSeen(seq) ==
    LET firsts == {p \in 1..Len(seq) : \A q \in 1..(p - 1) : seq[q] # seq[p]}
    IN  [k \in 1..Cardinality(firsts) |->
            seq[CHOOSE p \in firsts : Cardinality({q \in firsts : q < p}) = k - 1]]

Take(seq, n) == [k \in 1..(IF Len(seq) < n THEN Len(seq) ELSE n) |-> seq[k]]

Returned == pc = "returned" /\ output.kind = "return"

InEntries == Flatten([k \in 1..Len(input.chunks) |-> input.chunks[k].transcript])

\* the sum of the supplied durations of the results before the k-th (k from 1)
OffsetBefore(k) ==
    LET supplied == IF k - 1 < Len(input.chunkDurations)
                    THEN k - 1 ELSE Len(input.chunkDurations)
    IN  SumTo(input.chunkDurations, supplied)

\* the place in the merged transcript of the j-th entry of the k-th result
PlaceOf(k, j) ==
    SumTo([h \in 1..(k - 1) |-> Len(input.chunks[h].transcript)], k - 1) + j

Timestamps(transcript) ==
    [k \in 1..Len(transcript) |-> transcript[k].timestamp]

\* C1: every entry of the k-th result is rewritten to the MM:SS rendering of
\* its parsed minutes*60+seconds plus the sum of the supplied durations of the
\* results before it, seconds carried into minutes and minutes never wrapped;
\* durations [600, 600, 300] with one entry at "00:05" each give "00:05",
\* "10:05", "20:05"; "05:30" + 90 is "07:00" and "00:59" + 61 is "02:00".
C1_TimestampsOffsetByPriorDurations ==
    Returned =>
        LET out == output.value.transcript
        IN  /\ Len(out) = Len(InEntries)
            /\ \A k \in 1..Len(input.chunks) :
                   \A j \in 1..Len(input.chunks[k].transcript) :
                       LET t == input.chunks[k].transcript[j].timestamp
                       IN  Parsable(t) =>
                               out[PlaceOf(k, j)].timestamp
                                   = MMSS(ParsedSeconds(t) + OffsetBefore(k))
            /\ input = Call(<<ResultA, ResultA, ResultA>>, <<600, 600, 300>>)
                   => Timestamps(out) = << <<"0", "0", ":", "0", "5">>,
                                           <<"1", "0", ":", "0", "5">>,
                                           <<"2", "0", ":", "0", "5">> >>
            /\ input = Call(<<EmptyResult,
                              TimedResult(<<"0", "5", ":", "3", "0">>)>>,
                            <<90, 0>>)
                   => Timestamps(out) = << <<"0", "7", ":", "0", "0">> >>
            /\ input = Call(<<EmptyResult,
                              TimedResult(<<"0", "0", ":", "5", "9">>)>>,
                            <<61, 0>>)
                   => Timestamps(out) = << <<"0", "2", ":", "0", "0">> >>

C1_Witness ==
    /\ Returned
    /\ input = Call(<<ResultA, ResultA, ResultA>>, <<600, 600, 300>>)
    /\ Timestamps(output.value.transcript)[3] = <<"2", "0", ":", "0", "5">>

AllTags == Flatten([k \in 1..Len(input.chunks) |-> input.chunks[k].metadata.tags])

AllLanguageTokens ==
    Flatten([k \in 1..Len(input.chunks) |->
                LET parts == split(input.chunks[k].metadata.language, ",")
                IN  [h \in 1..Len(parts) |-> trim(parts[h])]])

\* C7 as claimed: merging one result whose timestamps are well-formed returns
\* its metadata (title, speaker, category, language, tags, summary) and its
\* transcript unchanged.
C7_SingleResultUnchanged ==
    (/\ Returned
     /\ Len(input.chunks) = 1
     /\ \A j \in 1..Len(InEntries) : IsMMSS(InEntries[j].timestamp))
        => /\ output.value.metadata = input.chunks[1].metadata
           /\ output.value.transcript = input.chunks[1].transcript

\* the tags and the language string as the merge normalises them
TagsNormalised(tags) ==
    /\ Len(tags) <= 15
    /\ \A p, q \in 1..Len(tags) : p # q => tags[p] # tags[q]
    /\ \A p \in 1..Len(tags) :
           \A k \in 1..Len(tags[p]) :
               \A u \in 1..26 : tags[p][k] # UpperCase[u]

LanguageNormalised(language) ==
    LET parts == split(language, ",")
    IN  /\ \A p, q \in 1..Len(parts) : p # q => trim(parts[p]) # trim(parts[q])
        /\ parts[1] = trim(parts[1])
        /\ \A p \in 2..Len(parts) : parts[p] = <<" ">> \o trim(parts[p])

\* C7 amended: merging one result whose timestamps are well-formed returns its
\* title, speaker, category and summary and its transcript unchanged; the tags
\* are the result's tags lower-cased, each kept at its first appearance, cut
\* to 15, and the language is the result's comma-separated tokens trimmed,
\* each kept at its first appearance, joined with ", ": so tags and language
\* are unchanged exactly when they already have that form.
C7_SingleResultNormalised ==
    (/\ Returned
     /\ Len(input.chunks) = 1
     /\ \A j \in 1..Len(InEntries) : IsMMSS(InEntries[j].timestamp))
        => LET r == input.chunks[1]
               m == output.value.metadata
           IN  /\ DOMAIN m = DOMAIN r.metadata
               /\ m.title = r.metadata.title
               /\ m.speakerName = r.metadata.speakerName
               /\ m.category = r.metadata.category
               /\ m.summary = r.metadata.summary
               /\ output.value.transcript = r.transcript
               /\ m.tags = Take(FirstSeen([k \in 1..Len(r.metadata.tags) |->
                                              toLowerCase(r.metadata.tags[k])]), 15)
               /\ m.language = join(FirstSeen(AllLanguageTokens), <<",", " ">>)
               /\ (m.tags = r.metadata.tags) <=> TagsNormalised(r.metadata.tags)
               /\ (m.language = r.metadata.language)
                      <=> LanguageNormalised(r.metadata.language)

\* one result with an upper-case tag: the merge changes its tags and nothing else
C7_Witness ==
    /\ Returned
    /\ input.chunks = <<ResultA>>
    /\ output.value.metadata.tags = << <<"a">>, <<"b">> >>
    /\ output.value.metadata.language = English
    /\ output.value.transcript = ResultA.transcript

\* C8: for well-formed input timestamps and non-negative whole offsets every
\* timestamp of the merged transcript has the form MM:SS: at least two minute
\* digits, zero-padded below 10 and free to exceed 59 and two digits, a
\* colon, and exactly two second digits in 00..59.
C8_OutputTimestampsAreMMSS ==
    Returned =>
        /\ Len(output.value.transcript) = Len(InEntries)
        /\ \A p \in 1..Len(InEntries) :
               IsMMSS(InEntries[p].timestamp)
                   => IsMMSS(output.value.transcript[p].timestamp)

\* an offset carries two-digit minutes into three digits, and another result
\* is padded below ten minutes
C8_Witness ==
    /\ Returned
    /\ \E p \in 1..Len(InEntries) :
           /\ IsMMSS(InEntries[p].timestamp)
           /\ Len(InEntries[p].timestamp) = 5
           /\ Len(output.value.transcript[p].timestamp) = 6
           /\ OffsetBefore(2) > 0

\* C9: the merged tags are the lower-cased tags of all results in result order
\* then tag order, each distinct one kept at its first appearance, cut to the
\* first 15: never more than 15, never two equal, and ["A","b"] with
\* ["B","c"] gives ["a","b","c"].
C9_TagsFirstSeenLowerCasedAtMost15 ==
    Returned =>
        LET tags == output.value.metadata.tags
        IN  /\ tags = Take(FirstSeen([k \in 1..Len(AllTags) |->
                                         toLowerCase(AllTags[k])]), 15)
            /\ Len(tags) <= 15
            /\ \A p, q \in 1..Len(tags) : p # q => tags[p] # tags[q]
            /\ (/\ Len(input.chunks) = 2
                /\ input.chunks[1].metadata.tags = << <<"A">>, <<"b">> >>
                /\ input.chunks[2].metadata.tags = << <<"B">>, <<"c">> >>)
                   => tags = << <<"a">>, <<"b">>, <<"c">> >>

\* more than 15 distinct tags went in, in both cases, and 15 came out
C9_Witness ==
    /\ Returned
    /\ Len(output.value.metadata.tags) = 15
    /\ Cardinality({toLowerCase(AllTags[k]) : k \in 1..Len(AllTags)}) > 15
    /\ \E k \in 1..Len(AllTags) : toLowerCase(AllTags[k]) # AllTags[k]

\* C10: the merged language is every result's language split on commas, each
\* token trimmed, each distinct token (case-sensitively) kept at its first
\* appearance, joined with ", ": "English, Spanish" with "spanish, French"
\* gives "English, Spanish, spanish, French".
C10_LanguagesFirstSeenCaseSensitive ==
    Returned =>
        LET language == output.value.metadata.language
        IN  /\ language = join(FirstSeen(AllLanguageTokens), <<",", " ">>)
            /\ (/\ Len(input.chunks) = 2
                /\ input.chunks[1].metadata.language
                       = English \o <<",", " ">> \o Spanish
                /\ input.chunks[2].metadata.language
                       = spanish \o <<",", " ">> \o French)
                   => language = English \o <<",", " ">> \o Spanish
                                     \o <<",", " ">> \o spanish
                                     \o <<",", " ">> \o French

C10_Witness ==
    /\ Returned
    /\ input.chunks = <<ResultB, ResultC>>
    /\ output.value.metadata.language
           = English \o <<",", " ">> \o Spanish \o <<",", " ">> \o spanish
                 \o <<",", " ">> \o French

(***************************************************************************)
(* removeBoundaryDuplicates applied to a drawn transcript                  *)
(***************************************************************************)
MaxEntries == 3       \* entries of a drawn transcript

Repeat(c, n) == [k \in 1..n |-> c]

\* texts that differ within their first 20 characters, only in case, or only
\* in the 21st character
SampleTexts ==
    {Repeat("a", 20) \o tail : tail \in {<<"x">>, <<"X">>, <<"y">>}}
    \cup {Repeat("a", 19) \o <<"x">>, <<"x">>, <<"X">>}

SampleEntries ==
    {Entry(t, text) : t \in {MkTimestamp(0, 5), MkTimestamp(10, 5)},
                       text \in SampleTexts}

InitDedup ==
    /\ pc = "call"
    /\ output = <<>>
    /\ Idle
    /\ input \in SeqsUpTo(SampleEntries, MaxEntries)

CallRemoveBoundaryDuplicates ==
    /\ pc = "call"
    /\ output' = Return(removeBoundaryDuplicates(input))
    /\ pc' = "returned"
    /\ UNCHANGED <<input, run>>

SpecDedup == InitDedup /\ [][CallRemoveBoundaryDuplicates]_vars

\* the fingerprint of an entry: its exact timestamp and the lower-cased first
\* 20 characters of its text
Fingerprint(entry) == <<entry.timestamp, toLowerCase(Take(entry.text, 20))>>

FingerprintSeenBefore(p) ==
    \E q \in 1..(p - 1) : Fingerprint(input[q]) = Fingerprint(input[p])

\* same timestamp and case-insensitively the same full text as the entry
\* just before it in the input
RepeatsPrevious(p) ==
    /\ p > 1
    /\ input[p - 1].timestamp = input[p].timestamp
    /\ toLowerCase(input[p - 1].text) = toLowerCase(input[p].text)

\* the entries of the input at the places in S, in input order
Pick(S) ==
    [k \in 1..Cardinality(S) |->
        input[CHOOSE p \in S : Cardinality({q \in S : q < p}) = k - 1]]

\* C6: removeBoundaryDuplicates drops an entry if and only if its fingerprint
\* was already seen and its timestamp and case-insensitive full text equal
\* those of the entry just before it in the input; every other entry is kept
\* in order.  Adjacent repeats collapse to one; entries with the same
\* timestamp and different text both stay even when their fingerprints collide.
C6_DropsOnlySeenAdjacentRepeats ==
    Returned =>
        /\ output.value
               = Pick({p \in 1..Len(input) :
                          ~(FingerprintSeenBefore(p) /\ RepeatsPrevious(p))})
        /\ Len(output.value)
               = Len(input) - Cardinality({p \in 1..Len(input) : RepeatsPrevious(p)})
        /\ (\A p \in 2..Len(input) :
                input[p - 1].timestamp # input[p].timestamp
                    \/ toLowerCase(input[p - 1].text) # toLowerCase(input[p].text))
               => output.value = input

\* three entries with one fingerprint: the second differs from the first in
\* its 21st character and stays, the third repeats the second in another case
\* and goes
C6_Witness ==
    /\ Returned
    /\ Len(input) = 3
    /\ Fingerprint(input[1]) = Fingerprint(input[2])
    /\ toLowerCase(input[1].text) # toLowerCase(input[2].text)
    /\ input[2].text # input[3].text
    /\ RepeatsPrevious(3)
    /\ output.value = <<input[1], input[2]>>

(***************************************************************************)
(* utils/videoChunker.ts                                                   *)
(***************************************************************************)
BytesPerMB == 1048576
FallbackSizeMB == 50

\* what getVideoDuration settles to: the duration, or a rejection
Resolved(value) == [ok |-> TRUE, value |-> value]
Rejected == [ok |-> FALSE]

\* shouldChunkVideo(file, maxSizeMB, maxDurationMinutes), given what
\* getVideoDuration settles to; sizeMB > m is size > m * 1024 * 1024
shouldChunkVideo(size, durationOutcome, maxSizeMB, maxDurationMinutes) ==
    IF size > maxSizeMB * BytesPerMB THEN TRUE
    ELSE IF durationOutcome.ok
    THEN durationOutcome.value > maxDurationMinutes * 60
    ELSE size > FallbackSizeMB * BytesPerMB

\* Math.ceil(a / b) for whole a >= 0 and b > 0
Ceil(a, b) == (a + b - 1) \div b

Min(a, b) == IF a < b THEN a ELSE b

\* the chunks with every endTime a whole multiple of the chunk length
PlanChunks_noClamp(duration, chunkDurationMinutes) ==
    LET chunkDurationSeconds == chunkDurationMinutes * 60
        totalChunks == Ceil(duration, chunkDurationSeconds)
    IN  [k \in 1..totalChunks |->
            [startTime |-> (k - 1) * chunkDurationSeconds,
             endTime |-> k * chunkDurationSeconds,
             index |-> k - 1,
             duration |-> chunkDurationSeconds]]

\* the chunks counted with Math.floor
PlanChunks_floor(duration, chunkDurationMinutes) ==
    LET chunkDurationSeconds == chunkDurationMinutes * 60
        totalChunks == duration \div chunkDurationSeconds
    IN  [k \in 1..totalChunks |->
            [startTime |-> (k - 1) * chunkDurationSeconds,
             endTime |-> Min(k * chunkDurationSeconds, duration),
             index |-> k - 1,
             duration |-> Min(k * chunkDurationSeconds, duration)
                              - (k - 1) * chunkDurationSeconds]]

\* the chunks splitVideoIntoChunks pushes: the k-th here is the loop's i = k - 1
PlanChunks(duration, chunkDurationMinutes) ==
    LET chunkDurationSeconds == chunkDurationMinutes * 60
        totalChunks == Ceil(duration, chunkDurationSeconds)
    IN  [k \in 1..totalChunks |->
            LET startTime == (k - 1) * chunkDurationSeconds
                endTime == Min(k * chunkDurationSeconds, duration)
            IN  [startTime |-> startTime,
                 endTime |-> endTime,
                 index |-> k - 1,
                 duration |-> endTime - startTime]]

\* a ChunkingProgress handed to onProgress / onChunkProgress; progress is the
\* exact fraction num / den (0 when den is 0), status the message's stage
Progress(currentChunk, totalChunks, num, den, status) ==
    [kind |-> "progress", currentChunk |-> currentChunk,
     totalChunks |-> totalChunks, progress |-> <<num, den>>, status |-> status]

\* the notifications of splitVideoIntoChunks' loop, one per chunk
PlanProgress(totalChunks) ==
    [k \in 1..totalChunks |->
        Progress(k, totalChunks, k * 100, totalChunks, "Creating chunk")]

(***************************************************************************)
(* services: processVideoWithGemini and processVideoWithChunking           *)
(***************************************************************************)
MaxSegments == 3      \* chunks planned for a drawn run

DefaultMaxSizeMB == 100
DefaultMaxDurationMinutes == 60

ConfigError == "GEMINI_API_KEY is not set"
AdapterError == "generateContent failed"
ReadError == "FileReader failed"
MetadataError == "Failed to load video metadata"
VideoError == "Failed to load video"
CallbackError == "callback threw"

SegmentOpen == <<" ", "(", "S", "e", "g", "m", "e", "n", "t", " ">>

\* chunkMetadata: userMetadata with the title marked "(Segment i+1/totalChunks)"
ChunkMetadata(userMetadata, index, totalChunks) ==
    [userMetadata EXCEPT
        !.title = @ \o SegmentOpen \o String(index + 1) \o <<"/">>
                    \o String(totalChunks) \o <<")">>]

\* the placeholder numbered from 0
FailedChunkResult_zeroBased(userMetadata, index) ==
    [metadata |->
        [title |-> userMetadata.title,
         speakerName |-> userMetadata.speakerName,
         category |-> userMetadata.category,
         language |-> Unknown,
         tags |-> <<>>,
         summary |-> ChunkWord \o String(index) \o ProcessingFailed],
     transcript |-> <<>>]

\* the result the catch block pushes for the chunk at index (0-based)
FailedChunkResult(userMetadata, index) ==
    [metadata |->
        [title |-> userMetadata.title,
         speakerName |-> userMetadata.speakerName,
         category |-> userMetadata.category,
         language |-> Unknown,
         tags |-> <<>>,
         summary |-> ChunkWord \o String(index + 1) \o ProcessingFailed],
     transcript |-> <<>>]

\* what JSON.parse(response.text) may hold for the given hints: the service
\* answers with one entry, or with two languages and a repeated entry
AdapterResults(hints) ==
    { [metadata |-> [title |-> hints.title, speakerName |-> hints.speakerName,
                     category |-> hints.category, language |-> English,
                     tags |-> << <<"A">>, <<"b">> >>, summary |-> Intro],
       transcript |-> <<Entry(MkTimestamp(0, 5), Hello)>>],
      [metadata |-> [title |-> hints.title, speakerName |-> hints.speakerName,
                     category |-> hints.category,
                     language |-> English \o <<",", " ">> \o Spanish,
                     tags |-> << <<"B">>, <<"c">> >>, summary |-> More],
       transcript |-> <<Entry(MkTimestamp(5, 30), Hello),
                        Entry(MkTimestamp(5, 30), Hello)>>] }

Dispatch(segment, title) ==
    [kind |-> "dispatch", segment |-> segment, title |-> title]
Settled(segment, ok) == [kind |-> "settled", segment |-> segment, ok |-> ok]
Complete(chunkIndex, totalChunks) ==
    [kind |-> "complete", chunkIndex |-> chunkIndex, totalChunks |-> totalChunks]
Caught(segment, cause, at) ==
    [kind |-> "caught", segment |-> segment, cause |-> cause, at |-> at]
Pause(after) == [kind |-> "pause", after |-> after]

DurationSamples == {0, 300, 600, 1500, 2100, 4500}

InitRun ==
    /\ pc = "start"
    /\ output = <<>>
    /\ apiKey \in BOOLEAN
    /\ chunks = <<>>
    /\ i = 0
    /\ chunkResults = <<>>
    /\ chunkDurations = <<>>
    /\ inFlight = {}
    /\ events = <<>>
    /\ \E size \in {10 * BytesPerMB, 60 * BytesPerMB, 150 * BytesPerMB} :
           \E chunkDurationMinutes \in {10, 30} :
               \E duration \in {d \in DurationSamples :
                                   Ceil(d, chunkDurationMinutes * 60)
                                       <= MaxSegments} :
                   input = [file |-> [size |-> size, duration |-> duration,
                                      type |-> "video/mp4"],
                            userMetadata |-> [title |-> Talk,
                                              speakerName |-> "Ada",
                                              category |-> "Lecture"],
                            options |-> [chunkDurationMinutes |->
                                             chunkDurationMinutes]]

\* the run rejects with error, after the callbacks and calls in evs
Fail(error, evs) ==
    /\ pc' = "error"
    /\ output' = Throw(error)
    /\ events' = evs
    /\ inFlight' = inFlight \ {i}
    /\ UNCHANGED <<input, apiKey, chunks, i, chunkResults, chunkDurations>>

\* the catch block rethrowing instead of recording a placeholder
CatchBlock_rethrow(cause, results, durations, evs) == Fail(cause, evs)

\* the catch block of the dispatch loop, entered with the lists as the try
\* block left them; the for loop then moves to the next chunk
CatchBlock(cause, results, durations, evs) ==
    /\ chunkResults' = Append(results, FailedChunkResult(input.userMetadata, i))
    /\ chunkDurations' = Append(durations, chunks[i + 1].duration)
    /\ events' = Append(evs, Caught(i + 1, cause, Len(results) + 1))
    /\ i' = i + 1
    /\ pc' = "loop"
    /\ inFlight' = inFlight \ {i}
    /\ UNCHANGED <<input, output, apiKey, chunks>>

\* await shouldChunkVideo(file, 100, 60): getVideoDuration settles either way
ShouldChunk ==
    /\ pc = "start"
    /\ \E outcome \in {Resolved(input.file.duration), Rejected} :
           pc' = IF shouldChunkVideo(input.file.size, outcome,
                                     DefaultMaxSizeMB, DefaultMaxDurationMinutes)
                 THEN "prepare" ELSE "direct"
    /\ UNCHANGED <<input, output, run>>

\* not chunked: the FileReader loads the file
DirectRead ==
    /\ pc = "direct"
    /\ pc' = "directCall"
    /\ UNCHANGED <<input, output, run>>

DirectReadFails ==
    /\ pc = "direct"
    /\ Fail(ReadError, events)

\* not chunked: processVideoWithGemini checks the key and calls the service
DirectCall ==
    /\ pc = "directCall"
    /\ LET evs == Append(events, Dispatch(0, input.userMetadata.title))
       IN  IF ~apiKey THEN Fail(ConfigError, evs)
           ELSE /\ pc' = "directAwait"
                /\ inFlight' = {0}
                /\ events' = evs
                /\ UNCHANGED <<input, output, apiKey, chunks, i, chunkResults,
                               chunkDurations>>

DirectResolves ==
    /\ pc = "directAwait"
    /\ \E result \in AdapterResults(input.userMetadata) :
           output' = Return(result)
    /\ pc' = "done"
    /\ inFlight' = {}
    /\ events' = Append(events, Settled(0, TRUE))
    /\ UNCHANGED <<input, apiKey, chunks, i, chunkResults, chunkDurations>>

DirectRejects ==
    /\ pc = "directAwait"
    /\ Fail(AdapterError, Append(events, Settled(0, FALSE)))

\* chunked: onChunkProgress announces the preparation
PrepareChunks ==
    /\ pc = "prepare"
    /\ pc' = "duration"
    /\ events' = Append(events, Progress(0, 0, 0, 1, "Preparing video chunks"))
    /\ UNCHANGED <<input, output, apiKey, chunks, i, chunkResults,
                   chunkDurations, inFlight>>

PrepareChunksThrows ==
    /\ pc = "prepare"
    /\ Fail(CallbackError,
            Append(events, Progress(0, 0, 0, 1, "Preparing video chunks")))

\* splitVideoIntoChunks: await getVideoDuration(file)
SplitGetDuration ==
    /\ pc = "duration"
    /\ pc' = "load"
    /\ UNCHANGED <<input, output, run>>

SplitGetDurationFails ==
    /\ pc = "duration"
    /\ Fail(MetadataError, events)

\* splitVideoIntoChunks: video.onloadeddata plans every chunk and resolves;
\* processVideoWithChunking then starts its loop with empty lists
SplitVideoLoaded ==
    /\ pc = "load"
    /\ chunks' = PlanChunks(input.file.duration,
                            input.options.chunkDurationMinutes)
    /\ events' = events \o PlanProgress(Len(chunks'))
    /\ i' = 0
    /\ chunkResults' = <<>>
    /\ chunkDurations' = <<>>
    /\ pc' = "loop"
    /\ UNCHANGED <<input, output, apiKey, inFlight>>

\* splitVideoIntoChunks: onProgress throws at the k-th chunk, the promise rejects
SplitProgressThrows ==
    /\ pc = "load"
    /\ LET planned == PlanChunks(input.file.duration,
                                 input.options.chunkDurationMinutes)
       IN  \E k \in 1..Len(planned) :
               Fail(CallbackError,
                    events \o SubSeq(PlanProgress(Len(planned)), 1, k))

\* splitVideoIntoChunks: video.onerror
SplitVideoFails ==
    /\ pc = "load"
    /\ Fail(VideoError, events)

ProcessingProgress ==
    Progress(i + 1, Len(chunks), (i + 1) * 100, Len(chunks), "Processing chunk")

\* the loop's head for chunk i: onChunkProgress, then chunkToBase64 starts
LoopHead ==
    /\ pc = "loop"
    /\ i < Len(chunks)
    /\ pc' = "read"
    /\ events' = Append(events, ProcessingProgress)
    /\ UNCHANGED <<input, output, apiKey, chunks, i, chunkResults,
                   chunkDurations, inFlight>>

LoopHeadProgressThrows ==
    /\ pc = "loop"
    /\ i < Len(chunks)
    /\ Fail(CallbackError, Append(events, ProcessingProgress))

\* the call dispatched without awaiting it: the loop goes on at once
ChunkRead_noAwait ==
    /\ pc = "read"
    /\ LET title == ChunkMetadata(input.userMetadata, i, Len(chunks)).title
           evs == Append(events, Dispatch(i + 1, title))
       IN  IF ~apiKey
           THEN CatchBlock(ConfigError, chunkResults, chunkDurations, evs)
           ELSE /\ pc' = "loop"
                /\ i' = i + 1
                /\ inFlight' = inFlight \cup {i}
                /\ events' = evs
                /\ UNCHANGED <<input, output, apiKey, chunks, chunkResults,
                               chunkDurations>>

\* chunkToBase64 resolved: processVideoWithGemini checks the key, then calls
\* the service with the chunk's metadata
ChunkRead ==
    /\ pc = "read"
    /\ LET title == ChunkMetadata(input.userMetadata, i, Len(chunks)).title
           evs == Append(events, Dispatch(i + 1, title))
       IN  IF ~apiKey
           THEN CatchBlock(ConfigError, chunkResults, chunkDurations, evs)
           ELSE /\ pc' = "await"
                /\ inFlight' = inFlight \cup {i}
                /\ events' = evs
                /\ UNCHANGED <<input, output, apiKey, chunks, i, chunkResults,
                               chunkDurations>>

\* chunkToBase64 rejected
ChunkReadFails ==
    /\ pc = "read"
    /\ CatchBlock(ReadError, chunkResults, chunkDurations, events)

\* generateContent resolved: the result and the duration are pushed,
\* onChunkComplete is called, and the loop pauses unless this was the last chunk
ChunkResolves ==
    /\ pc = "await"
    /\ \E result \in AdapterResults(ChunkMetadata(input.userMetadata, i,
                                                  Len(chunks))) :
           chunkResults' = Append(chunkResults, result)
    /\ chunkDurations' = Append(chunkDurations, chunks[i + 1].duration)
    /\ events' = events \o <<Settled(i + 1, TRUE),
                             Complete(i + 1, Len(chunks))>>
    /\ inFlight' = inFlight \ {i}
    /\ IF i < Len(chunks) - 1
       THEN pc' = "pause" /\ i' = i
       ELSE pc' = "loop" /\ i' = i + 1
    /\ UNCHANGED <<input, output, apiKey, chunks>>

\* generateContent resolved and onChunkComplete threw: the catch block runs
\* after the result and the duration were pushed
ChunkCompleteThrows ==
    /\ pc = "await"
    /\ \E result \in AdapterResults(ChunkMetadata(input.userMetadata, i,
                                                  Len(chunks))) :
           CatchBlock(CallbackError,
                      Append(chunkResults, result),
                      Append(chunkDurations, chunks[i + 1].duration),
                      events \o <<Settled(i + 1, TRUE),
                                  Complete(i + 1, Len(chunks))>>)

\* generateContent rejected, or its response did not parse
ChunkRejects ==
    /\ pc = "await"
    /\ CatchBlock(AdapterError, chunkResults, chunkDurations,
                  Append(events, Settled(i + 1, FALSE)))

\* the setTimeout between chunks fired
PauseElapsed ==
    /\ pc = "pause"
    /\ pc' = "loop"
    /\ i' = i + 1
    /\ events' = Append(events, Pause(i + 1))
    /\ UNCHANGED <<input, output, apiKey, chunks, chunkResults, chunkDurations,
                   inFlight>>

MergingProgress ==
    Progress(Len(chunks), Len(chunks), 100, 1, "Merging transcripts")

\* after the loop: onChunkProgress, mergeTranscripts, removeBoundaryDuplicates
MergeResults ==
    /\ pc = "loop"
    /\ i >= Len(chunks)
    /\ LET merged == mergeTranscripts(chunkResults, chunkDurations)
       IN  IF merged.kind = "throw"
           THEN Fail(merged.error, Append(events, MergingProgress))
           ELSE /\ output' = Return([merged.value EXCEPT
                                        !.transcript = removeBoundaryDuplicates(@)])
                /\ pc' = "done"
                /\ events' = Append(events, MergingProgress)
                /\ UNCHANGED <<input, apiKey, chunks, i, chunkResults,
                               chunkDurations, inFlight>>

MergeProgressThrows ==
    /\ pc = "loop"
    /\ i >= Len(chunks)
    /\ Fail(CallbackError, Append(events, MergingProgress))

Next ==
    \/ ShouldChunk
    \/ DirectRead
    \/ DirectReadFails
    \/ DirectCall
    \/ DirectResolves
    \/ DirectRejects
    \/ PrepareChunks
    \/ PrepareChunksThrows
    \/ SplitGetDuration
    \/ SplitGetDurationFails
    \/ SplitVideoLoaded
    \/ SplitProgressThrows
    \/ SplitVideoFails
    \/ LoopHead
    \/ LoopHeadProgressThrows
    \/ ChunkRead
    \/ ChunkReadFails
    \/ ChunkResolves
    \/ ChunkCompleteThrows
    \/ ChunkRejects
    \/ PauseElapsed
    \/ MergeProgressThrows
    \/ MergeResults

Spec == InitRun /\ [][Next]_vars

\* every pending promise settles and every timer fires
FairSpec == Spec /\ WF_vars(Next)

(***************************************************************************)
(* splitVideoIntoChunks on its own, for any duration and chunk length      *)
(***************************************************************************)
MaxDuration == 200       \* drawn total durations: 0..MaxDuration seconds
MaxChunkMinutes == 3     \* drawn chunk lengths: 1..MaxChunkMinutes minutes

InitSplit ==
    /\ pc = "duration"
    /\ output = <<>>
    /\ Idle
    /\ \E duration \in 0..MaxDuration :
           \E chunkDurationMinutes \in 1..MaxChunkMinutes :
               input = [file |-> [size |-> 150 * BytesPerMB,
                                  duration |-> duration, type |-> "video/mp4"],
                        userMetadata |-> [title |-> Talk, speakerName |-> "Ada",
                                          category |-> "Lecture"],
                        options |-> [chunkDurationMinutes |->
                                         chunkDurationMinutes]]

NextSplit ==
    \/ SplitGetDuration
    \/ SplitGetDurationFails
    \/ SplitVideoLoaded
    \/ SplitProgressThrows
    \/ SplitVideoFails

SpecSplit == InitSplit /\ [][NextSplit]_vars

\* splitVideoIntoChunks has resolved with the chunks
Planned == pc = "loop" /\ i = 0 /\ chunkResults = <<>>

\* C2: for total duration D and segment length L > 0 splitVideoIntoChunks
\* returns exactly ceil(D/L) segments, indexed 0..n-1 in order; segment 0
\* starts at 0, each segment starts where the one before ends, every segment
\* has start < end and duration = end - start, and the last one ends at D.
C2_SegmentsTileTheDuration ==
    Planned =>
        LET D == input.file.duration
            L == input.options.chunkDurationMinutes * 60
            n == Len(chunks)
        IN  /\ (n - 1) * L < D
            /\ D <= n * L
            /\ \A k \in 1..n :
                   /\ chunks[k].index = k - 1
                   /\ chunks[k].startTime < chunks[k].endTime
                   /\ chunks[k].duration = chunks[k].endTime - chunks[k].startTime
                   /\ chunks[k].startTime
                          = IF k = 1 THEN 0 ELSE chunks[k - 1].endTime
            /\ n > 0 => chunks[n].endTime = D

\* three segments, the last one shorter than the others
C2_Witness ==
    /\ Planned
    /\ Len(chunks) = 3
    /\ chunks[3].duration < chunks[2].duration
    /\ chunks[3].endTime = input.file.duration

(***************************************************************************)
(* Properties of a run of processVideoWithChunking                         *)
(***************************************************************************)
\* the run took the chunked path: its first callback announced the preparation
Chunked == events # <<>> /\ events[1].kind = "progress"

Ended == pc \in {"done", "error"}

EventsOf(kind) == SelectSeq(events, LAMBDA e : e.kind = kind)

\* a segment was dispatched when its materialization failed or
\* processVideoWithGemini was called for it
IsAttempt(e) ==
    \/ e.kind = "dispatch" /\ e.segment > 0
    \/ e.kind = "caught" /\ e.cause = ReadError

AttemptedSegments ==
    LET attempts == SelectSeq(events, IsAttempt)
    IN  [k \in 1..Len(attempts) |-> attempts[k].segment]

C3_Safe ==
    /\ Chunked => AttemptedSegments = [k \in 1..Len(AttemptedSegments) |-> k]
    /\ (Chunked /\ pc = "done")
           => /\ output.kind = "return"
              /\ Len(chunks) >= 1
              /\ Len(AttemptedSegments) = Len(chunks)
    /\ pc = "error"
           => /\ output.kind = "throw"
              /\ IF Chunked
                 THEN output.error \in {MetadataError, VideoError, CallbackError,
                                        "No chunks to merge"}
                 ELSE output.error \in {ReadError, ConfigError, AdapterError}
              /\ output.error = "No chunks to merge" => Len(chunks) = 0
              /\ (\E k \in 1..Len(events) : events[k].kind = "caught")
                     => output.error = CallbackError

C4_FailedSegmentRecordsPlaceholder ==
    \A k \in 1..Len(events) :
        events[k].kind = "caught" =>
            /\ events[k].at <= Len(chunkResults)
            /\ events[k].segment \in 1..9
            /\ chunkResults[events[k].at] =
                   [metadata |->
                       [title |-> input.userMetadata.title,
                        speakerName |-> input.userMetadata.speakerName,
                        category |-> input.userMetadata.category,
                        language |-> <<"U", "n", "k", "n", "o", "w", "n">>,
                        tags |-> <<>>,
                        summary |->
                            <<"C", "h", "u", "n", "k", " ",
                              Digits[events[k].segment + 1], " ",
                              "p", "r", "o", "c", "e", "s", "s", "i", "n", "g",
                              " ", "f", "a", "i", "l", "e", "d">>],
                    transcript |-> <<>>]
            /\ \E d \in 1..Len(events) :
                   /\ events[d].kind = "progress"
                   /\ events[d].currentChunk = events[k].segment
                   /\ events[d].status = "Processing chunk"

\* the adapter call of segment 2 of 3 failed and its placeholder says so,
\* under the caller's own title
C4_Witness ==
    /\ pc = "done"
    /\ Len(chunks) = 3
    /\ \E k \in 1..Len(events) : events[k] = Caught(2, AdapterError, 2)
    /\ chunkResults[2].metadata.summary
           = ChunkWord \o <<"2">> \o ProcessingFailed
    /\ chunkResults[2].metadata.title = Talk
    /\ chunkResults[1].metadata.title # Talk

\* processVideoWithGemini was called without a usable key
ConfigErrorDetected ==
    /\ ~apiKey
    /\ \E k \in 1..Len(events) : events[k].kind = "dispatch"

\* C5: a configuration error is fatal in every run, chunked or not: the run
\* ends with that error as soon as it is detected, no segment is dispatched
\* after it, and no result built from placeholders is returned.
C5_ConfigurationErrorIsFatal ==
    ConfigErrorDetected =>
        /\ pc = "error"
        /\ output = Throw(ConfigError)
        /\ Len(EventsOf("dispatch")) = 1
        /\ chunkResults = <<>>

(***************************************************************************)
(* Properties of the merged summary                                        *)
(***************************************************************************)
\* the strings of seq written one after the other with one space between
RECURSIVE SpaceJoined(_)
SpaceJoined(seq) ==
    IF Len(seq) = 0 THEN <<>>
    ELSE IF Len(seq) = 1 THEN seq[1]
    ELSE seq[1] \o <<" ">> \o SpaceJoined(Tail(seq))

\* how many times needle occurs in hay
Occurrences(needle, hay) ==
    Cardinality({p \in 1..(Len(hay) - Len(needle) + 1) :
                    SubSeq(hay, p, p + Len(needle) - 1) = needle})

\* the chunked run returned its merged result
MergedRun == Chunked /\ pc = "done" /\ output.kind = "return"

Summaries == [k \in 1..Len(chunkResults) |-> chunkResults[k].metadata.summary]

FailedSegments ==
    {events[k].segment : k \in {h \in 1..Len(events) : events[h].kind = "caught"}}

\* C11: the merged summary is the results' summaries in result order, every
\* one that equals an earlier one left out, joined by exactly one space; so
\* the final summary of a chunked run holds "Chunk i processing failed" once
\* for every segment i whose dispatch failed.
C11_SummaryIsDistinctSummariesSpaceJoined ==
    MergedRun =>
        /\ output.value.metadata.summary = SpaceJoined(FirstSeen(Summaries))
        /\ \A s \in FailedSegments :
               Occurrences(ChunkWord \o NatToString(s) \o ProcessingFailed,
                           output.value.metadata.summary) = 1

\* segments 1 and 3 answered with the same summary and segment 2 failed: the
\* summary is said once, then the placeholder's
C11_Witness ==
    /\ MergedRun
    /\ Len(chunkResults) = 3
    /\ Summaries = <<Intro, ChunkWord \o <<"2">> \o ProcessingFailed, Intro>>
    /\ output.value.metadata.summary
           = Intro \o <<" ">> \o ChunkWord \o <<"2">> \o ProcessingFailed

(***************************************************************************)
(* Properties of mergeTranscripts called with no results                   *)
(***************************************************************************)
\* C12: mergeTranscripts called with zero results throws the empty-input
\* error 'No chunks to merge' from the call itself and returns no result,
\* whatever the durations are.
C12_NoResultsThrowsEmptyInputError ==
    (pc = "returned" /\ Len(input.chunks) = 0) =>
        /\ output.kind = "throw"
        /\ output.error = "No chunks to merge"
        /\ "value" \notin DOMAIN output

\* no results but two durations: the call threw
C12_Witness ==
    /\ pc = "returned"
    /\ input.chunks = <<>>
    /\ input.chunkDurations = <<300, 600>>
    /\ output.kind = "throw"

(***************************************************************************)
(* Properties of the notifications of a chunked run                        *)
(***************************************************************************)
\* the segment numbers onChunkComplete was called with, in call order
CompletedSegments ==
    [k \in 1..Len(EventsOf("complete")) |-> EventsOf("complete")[k].chunkIndex]

\* C13: in a chunked run with N segments onChunkComplete is called exactly
\* once for every segment, after that segment's dispatch resolved, with
\* (segment number, N), whether the dispatch succeeded or failed: N calls in
\* index order by the time the run returns.
C13_CompleteCalledOncePerSegment ==
    /\ \A k \in 1..Len(events) :
           events[k].kind = "complete" =>
               /\ events[k].totalChunks = Len(chunks)
               /\ k > 1
               /\ events[k - 1].kind \in {"settled", "caught"}
               /\ events[k - 1].segment = events[k].chunkIndex
    /\ MergedRun => CompletedSegments = [k \in 1..Len(chunks) |-> k]

\* the places in events of the progress notifications of a stage for segment k
ProgressAt(status, k) ==
    {p \in 1..Len(events) :
        /\ events[p].kind = "progress"
        /\ events[p].status = status
        /\ events[p].currentChunk = k}

\* the places in events where segment k's dispatch was over
CompletionAt(k) ==
    {c \in 1..Len(events) :
        /\ events[c].kind \in {"settled", "caught"}
        /\ events[c].segment = k}

\* C14: in a chunked run the progress callback is called once after each
\* segment is planned, once before each segment's dispatch starts and once
\* after each segment's dispatch completes (success or failure), and every
\* notification's percentComplete is between 0 and 100.
C14_ProgressAtEveryStage ==
    /\ \A p \in 1..Len(events) :
           events[p].kind = "progress" =>
               /\ events[p].progress[2] > 0
               /\ 0 <= events[p].progress[1]
               /\ events[p].progress[1] <= 100 * events[p].progress[2]
    /\ MergedRun =>
           \A k \in 1..Len(chunks) :
               /\ Cardinality(ProgressAt("Creating chunk", k)) = 1
               /\ Cardinality(ProgressAt("Processing chunk", k)) = 1
               /\ \A p \in ProgressAt("Processing chunk", k) :
                      \A c \in CompletionAt(k) : p < c
               /\ \E c \in CompletionAt(k) :
                      \E p \in (c + 1)..Len(events) :
                          /\ events[p].kind = "progress"
                          /\ events[p].currentChunk = k

(***************************************************************************)
(* shouldChunkVideo applied to drawn files and limits                      *)
(***************************************************************************)
MaxSizeTens == 12          \* sizes and size limits up to 10 * MaxSizeTens MB
MaxDurationHalfHours == 3  \* durations and duration limits up to this many

\* file.size in bytes: at, just below and just above every ten megabytes
FileSizes ==
    {s \in {k * 10 * BytesPerMB + d : k \in 0..MaxSizeTens, d \in {-1, 0, 1}} :
        s >= 0}

\* what getVideoDuration settles to: seconds at, just below and just above
\* every half hour, or a rejection
DurationOutcomes ==
    {Resolved(s) : s \in {t \in {h * 1800 + d : h \in 0..MaxDurationHalfHours,
                                                 d \in {-1, 0, 1}} : t >= 0}}
        \cup {Rejected}

InitShouldChunk ==
    /\ pc = "call"
    /\ output = <<>>
    /\ Idle
    /\ \E size \in FileSizes :
           \E outcome \in DurationOutcomes :
               \E maxSizeMB \in {k * 10 : k \in 1..MaxSizeTens} :
                   \E maxDurationMinutes \in
                          {h * 30 : h \in 1..MaxDurationHalfHours} :
                       input = [size |-> size,
                                durationOutcome |-> outcome,
                                maxSizeMB |-> maxSizeMB,
                                maxDurationMinutes |-> maxDurationMinutes]

\* the promise of shouldChunkVideo settles: it has no reject path
CallShouldChunkVideo ==
    /\ pc = "call"
    /\ output' = Return(shouldChunkVideo(input.size, input.durationOutcome,
                                         input.maxSizeMB,
                                         input.maxDurationMinutes))
    /\ pc' = "returned"
    /\ UNCHANGED <<input, run>>

SpecShouldChunk == InitShouldChunk /\ [][CallShouldChunkVideo]_vars

\* C15: for every size, duration outcome and pair of limits shouldChunkVideo
\* resolves to true when the size exceeds maxSizeMB; otherwise, when the
\* duration is obtainable, to true exactly when it exceeds maxDurationMinutes;
\* otherwise to true exactly when the size exceeds a secondary threshold that
\* is smaller than maxSizeMB. It never rejects.
C15_ShouldChunkBySizeThenDurationThenFallback ==
    pc = "returned" =>
        /\ output.kind = "return"
        /\ IF input.size > input.maxSizeMB * BytesPerMB
           THEN output.value = TRUE
           ELSE IF input.durationOutcome.ok
           THEN output.value
                    = (input.durationOutcome.value
                           > input.maxDurationMinutes * 60)
           ELSE /\ output.value = (input.size > FallbackSizeMB * BytesPerMB)
                /\ FallbackSizeMB < input.maxSizeMB
                \* a size at the limit exceeds every threshold below the limit
                /\ input.size = input.maxSizeMB * BytesPerMB
                       => output.value = TRUE

(***************************************************************************)
(* Properties of planning a file of no duration                            *)
(***************************************************************************)
\* C16: when the total duration is 0, splitVideoIntoChunks either yields
\* exactly one segment of duration 0 or rejects ("nothing to process"); the
\* dispatch loop is never handed an empty list of segments.
C16_ZeroDurationIsOneSegmentOrRejected ==
    (Planned /\ input.file.duration = 0) =>
        /\ Len(chunks) = 1
        /\ chunks[1].duration = 0

(***************************************************************************)
(* Properties of the dispatch loop's bookkeeping                           *)
(***************************************************************************)
\* the planned durations of the segments before the k-th (k from 1)
SegmentOffset(k) == SumTo([j \in 1..Len(chunks) |-> chunks[j].duration], k - 1)

\* the timestamps the entries of the results would carry if the k-th result
\* were segment k's and were offset by the segments planned before it
TimestampsBySegment ==
    UNION {{MMSS(ParsedSeconds(chunkResults[k].transcript[e].timestamp)
                     + SegmentOffset(k)) :
               e \in 1..Len(chunkResults[k].transcript)} :
           k \in 1..Len(chunkResults)}

\* C17: after the loop has handled segments 0..i the result list and the
\* duration list hold exactly i+1 entries each, and entry j of the duration
\* list is segment j's planned duration whether it succeeded or failed; so a
\* failed segment contributes no transcript entries and the entries of every
\* later segment are offset by the planned durations of all segments before.
C17_OneResultAndDurationPerSegment ==
    /\ (Chunked /\ pc = "loop") =>
           /\ Len(chunkResults) = i
           /\ Len(chunkDurations) = i
           /\ \A j \in 1..i : chunkDurations[j] = chunks[j].duration
           /\ \A s \in FailedSegments : chunkResults[s].transcript = <<>>
    /\ MergedRun =>
           {output.value.transcript[e].timestamp :
               e \in 1..Len(output.value.transcript)} = TimestampsBySegment

(***************************************************************************)
(* Properties of the order of the adapter calls                            *)
(***************************************************************************)
\* C18: adapter calls are strictly sequential: at most one call is in flight
\* at any moment, the call for a segment starts only after the call of the
\* segment before has resolved (with a result or a failure) and its result or
\* placeholder was appended, and merging starts only after the last segment's
\* dispatch has resolved.
C18_AdapterCallsAreSequential ==
    /\ Cardinality(inFlight) <= 1
    /\ pc = "await" => /\ inFlight = {i}
                       /\ Len(chunkResults) >= i
                       /\ Len(chunkDurations) >= i
    /\ pc \in {"loop", "read", "pause", "done", "error"} => inFlight = {}
    /\ \A p \in 1..Len(events) :
           /\ (events[p].kind = "dispatch" /\ events[p].segment > 1) =>
                  \E c \in CompletionAt(events[p].segment - 1) : c < p
           /\ (events[p].kind = "progress"
                   /\ events[p].status = "Merging transcripts") =>
                  \A k \in 1..Len(chunks) : \E c \in CompletionAt(k) : c < p

\* the third segment's call is in flight after the first resolved and the
\* second failed, both already appended
C18_Witness ==
    /\ pc = "await"
    /\ i = 2
    /\ inFlight = {2}
    /\ Len(chunkResults) = 2
    /\ chunkResults[1].transcript # <<>>
    /\ chunkResults[2].transcript = <<>>

(***************************************************************************)
(* Properties of the pause between dispatches                              *)
(***************************************************************************)
\* C19: between every two consecutive dispatches of a chunked run the loop
\* makes its pause before the next dispatch starts, whether the earlier
\* dispatch succeeded or failed, and no pause follows the last segment's.
C19_PauseBetweenConsecutiveDispatches ==
    \A p \in 1..Len(events) :
        /\ (events[p].kind = "dispatch" /\ events[p].segment > 1) =>
               \E q \in 1..(p - 1) : events[q] = Pause(events[p].segment - 1)
        /\ events[p].kind = "pause" => events[p].after < Len(chunks)

(***************************************************************************)
(* Properties of the callbacks' effect on the bookkeeping                  *)
(***************************************************************************)
\* the places in events where an adapter result was pushed for segment k
ResultPushedAt(k) ==
    {p \in 1..Len(events) :
        /\ events[p].kind = "settled"
        /\ events[p].segment = k
        /\ events[p].ok}

\* the places in events where a placeholder was pushed for segment k
PlaceholderPushedAt(k) ==
    {p \in 1..Len(events) :
        events[p].kind = "caught" /\ events[p].segment = k}

\* C20: the callbacks do not touch the bookkeeping: even when onChunkComplete
\* throws for a segment, the result list and the duration list receive
\* exactly one entry for it, an adapter result is never followed by a
\* placeholder for the same segment, and the durations behind the offsets of
\* later segments count the segment's duration exactly once.
C20_CallbacksDoNotTouchBookkeeping ==
    (Chunked /\ pc \in {"loop", "done"}) =>
        /\ \A k \in 1..i :
               /\ Cardinality(ResultPushedAt(k))
                      + Cardinality(PlaceholderPushedAt(k)) = 1
               /\ ~(ResultPushedAt(k) # {} /\ PlaceholderPushedAt(k) # {})
        /\ SumTo(chunkDurations, Len(chunkDurations)) = SegmentOffset(i + 1)

(***************************************************************************)
(* removeBoundaryDuplicates applied to its own output                      *)
(***************************************************************************)
\* removeBoundaryDuplicates called again, on what the first call returned
ReapplyRemoveBoundaryDuplicates ==
    /\ pc = "returned"
    /\ input' = output.value
    /\ output' = Return(removeBoundaryDuplicates(output.value))
    /\ pc' = "reapplied"
    /\ UNCHANGED run

NextDedupTwice ==
    \/ CallRemoveBoundaryDuplicates
    \/ ReapplyRemoveBoundaryDuplicates

SpecDedupTwice == InitDedup /\ [][NextDedupTwice]_vars

\* the two entries have the same timestamp and, case aside, the same text
SameSaid(a, b) ==
    /\ a.timestamp = b.timestamp
    /\ toLowerCase(a.text) = toLowerCase(b.text)

\* C21: for every input transcript the output of removeBoundaryDuplicates is
\* the input's entries at some of its places, in input order, and holds no
\* two adjacent entries with the same timestamp and case-insensitively the
\* same text; applied to its own output it returns that output unchanged.
C21_OutputIsSubsequenceWithoutAdjacentRepeatsAndFixed ==
    /\ pc \in {"returned", "reapplied"} =>
           /\ output.kind = "return"
           /\ \E S \in SUBSET (1..Len(input)) : output.value = Pick(S)
           /\ \A k \in 2..Len(output.value) :
                  ~SameSaid(output.value[k - 1], output.value[k])
    /\ pc = "reapplied" => output.value = input

\* the second call was handed the first call's output, in which two entries
\* with one fingerprint and different texts stand side by side, and returned it
C21_Witness ==
    /\ pc = "reapplied"
    /\ Len(input) = 2
    /\ output.value = input
    /\ Fingerprint(input[1]) = Fingerprint(input[2])
    /\ input[1].text # input[2].text

=============================================================================
